---- MODULE Spec2Model ----
(***************************************************************************)
(* corintick/serialization.py : the write path (make_bson_docs,            *)
(* _make_bson_doc, _make_bson_column) and the read path (_build_dataframe, *)
(* build_dataframe) as a state machine.                                    *)
(*                                                                         *)
(* Sizes are counted in MiB (2^20 bytes).  A DataFrame is a sequence of    *)
(* rows; every cell (index included) occupies ItemSize MiB in memory, and  *)
(* an array's LZ4 blob is as long as the sum of its elements' weights (an  *)
(* element x weighs x MiB).  numpy, lz4 and hashlib are libraries: the     *)
(* model keeps of them what the code relies on (decode inverts encode, the *)
(* length of a blob is a function of its content, a digest is a function   *)
(* of the blob).  Floating-point rounding of the size arithmetic is not    *)
(* modelled: target sizes are exact rationals <<num, den>>.  The few       *)
(* hundred bytes of an encoded array's header are below the unit and       *)
(* count as 0.  An index that is not a DatetimeIndex is one whose          *)
(* footprint grows with the rows (an int64 Index, not a RangeIndex).       *)
(* Column names stay distinct after renaming.                              *)
(***************************************************************************)
EXTENDS Integers, Sequences, FiniteSets, TLC

MAX_BSON_SIZE == 2^24          \* bytes
MiB == 2^20
CeilingMiB == MAX_BSON_SIZE \div MiB

\* Bounds of the model
MaxRows == 4                   \* longest single-column input table
ItemSize == 5                  \* MiB of memory per cell
RecursionLimit == 3            \* depth at which the interpreter raises RecursionError

Times == {1, 5}                \* index values: also their compressed weight in MiB
Values == {1, 7}               \* cell values: also their compressed weight in MiB
NaN == 0 - 1                   \* the filler pd.concat uses for a missing cell

\* Column names are sequences of characters
NameA == <<"a">>
NameB == <<"b">>
NameAdotB == <<"a", ".", "b">>
ColumnLists == {<<NameAdotB>>, <<NameA, NameB>>}

Uid == "series"
Metadata == [k \in {"source", "nrows"} |-> 9]

VARIABLES
    df,        \* the DataFrame passed to make_bson_docs
    stack,     \* suspended frames of make_bson_docs: [max_size, docs]
    max_size,  \* max_size of the running frame, a rational <<num, den>> of MiB
    subs,      \* split_dataframes(df, max_size) of the running frame
    i,         \* position of the for loop in subs
    docs,      \* docs of the running frame
    pc,        \* "call", "loop", "unwind", "done", "raised", "read", "assembled"
    ret,       \* the value make_bson_docs returned to its caller
    exc,       \* the exception that reached the caller, "none" if none
    calls,     \* number of times make_bson_docs was entered
    store,     \* the returned documents as persisted (possibly altered)
    given,     \* the documents handed to the reader (the order of supply is not kept)
    out        \* outcome of _build_dataframe / build_dataframe

vars == <<df, stack, max_size, subs, i, docs, pc, ret, exc, calls, store, given, out>>

-----------------------------------------------------------------------------
\* Arithmetic helpers

RECURSIVE SumSeq(_)
SumSeq(s) == IF s = <<>> THEN 0 ELSE Head(s) + SumSeq(Tail(s))

RECURSIVE GCD(_, _)
GCD(a, b) == IF b = 0 THEN a ELSE GCD(b, a % b)

Rational(n, d) == LET g == GCD(n, d) IN <<n \div g, d \div g>>

\* q1 < q2 for rationals with positive denominators
Less(q1, q2) == q1[1] * q2[2] < q2[1] * q1[2]

\* np.ceil(m / size) for an integer m and a rational size
CeilDiv(m, size) == (m * size[2] + size[1] - 1) \div size[1]

Min(a, b) == IF a < b THEN a ELSE b

Range(s) == {s[k] : k \in DOMAIN s}

\* s without its k-th element
Without(s, k) == SubSeq(s, 1, k - 1) \o SubSeq(s, k + 1, Len(s))

\* All orderings of the sequence s
RECURSIVE Orderings(_)
Orderings(s) ==
    IF Len(s) <= 1 THEN {s}
    ELSE UNION {{<<s[k]>> \o o : o \in Orderings(Without(s, k))} : k \in 1..Len(s)}

IsAscending(rows) == \A k \in 1..(Len(rows) - 1) : rows[k].t <= rows[k + 1].t

-----------------------------------------------------------------------------
\* ColumnCodec and ColumnRecord

_serialize_array(arr) == [ok |-> TRUE, npy |-> arr]

_deserialize_array(data) == data.npy

\* len(data)
BlobLen(data) == SumSeq(data.npy)

\* hashlib.sha1(data).digest()
Sha1(data) == <<"sha1", data>>

_make_bson_column(values, dtype) ==
    LET data == _serialize_array(values)
    IN [data |-> data, dtype |-> dtype, sha1 |-> Sha1(data), size |-> BlobLen(data)]

-----------------------------------------------------------------------------
\* DataFrame helpers

\* df.memory_usage().sum(): the index and every column, ItemSize per cell
memory_usage(frame) == Len(frame.rows) * (Len(frame.columns) + 1) * ItemSize

\* The ascending orderings of rows whose index values are in times
RECURSIVE AscendingOrderings(_, _)
AscendingOrderings(rows, times) ==
    IF times = {} THEN {<<>>}
    ELSE LET first == CHOOSE m \in times : \A n \in times : m <= n
             tied == SelectSeq(rows, LAMBDA row : row.t = first)
         IN {a \o b : a \in Orderings(tied),
                      b \in AscendingOrderings(rows, times \ {first})}

\* df.sort_index(ascending=True): the default sort is not stable, so every
\* ordering of the rows that ascends by index is a possible outcome
sort_index(rows) == AscendingOrderings(rows, {rows[k].t : k \in 1..Len(rows)})

\* re.sub('\.', '', str(x))
rename(name) == SelectSeq(name, LAMBDA c : c # ".")

IndexValues(rows) == [k \in 1..Len(rows) |-> rows[k].t]
ColumnValues(rows, c) == [k \in 1..Len(rows) |-> rows[k].vals[c]]

\* Variant: the 0.95 margin is left out of the comparison
TooLarge_NoMargin(binary_size) == binary_size > CeilingMiB

\* binary_size > 0.95 * MAX_BSON_SIZE
TooLarge(binary_size) == 20 * binary_size > 19 * CeilingMiB

NoDoc == [uid |-> "none"]

\* _make_bson_doc on frame, sorted being the outcome of its sort_index
_make_bson_doc(uid, frame, metadata, sorted) ==
    IF ~frame.typed
    THEN [kind |-> "raise", exc |-> "ValueError: index is not DatetimeIndex",
          binary_size |-> 0, mem_usage |-> 0, doc |-> NoDoc]
    ELSE
    LET mem_usage == memory_usage(frame)
        names == [c \in 1..Len(frame.columns) |-> rename(frame.columns[c])]
        index == _make_bson_column(IndexValues(sorted), "datetime64[ns]")
        columns == [c \in 1..Len(names) |->
                       [name |-> names[c],
                        col |-> _make_bson_column(ColumnValues(sorted, c), "int64")]]
        nrows == Len(sorted)
        binary_size == SumSeq([c \in 1..Len(names) |-> columns[c].col.size]) + index.size
        add_meta == [k \in {"nrows", "binary_size"} |->
                        IF k = "nrows" THEN nrows ELSE binary_size]
        meta == [k \in DOMAIN metadata \cup DOMAIN add_meta |->
                    IF k \in DOMAIN add_meta THEN add_meta[k] ELSE metadata[k]]
    IN IF TooLarge(binary_size)
       THEN [kind |-> "raise", exc |-> "InvalidBSON",
             binary_size |-> binary_size, mem_usage |-> mem_usage, doc |-> NoDoc]
       ELSE IF nrows = 0
       THEN [kind |-> "raise", exc |-> "IndexError",
             binary_size |-> binary_size, mem_usage |-> mem_usage, doc |-> NoDoc]
       ELSE [kind |-> "doc", exc |-> "none",
             binary_size |-> binary_size, mem_usage |-> mem_usage,
             doc |-> [uid |-> uid,
                      start |-> sorted[1].t,
                      end |-> sorted[nrows].t,
                      metadata |-> meta,
                      index |-> index,
                      columns |-> columns]]

-----------------------------------------------------------------------------
\* ChunkSplitter

\* Variant: k sections of Len(rows) \div k rows, the remainder left out
array_split_Truncating(rows, k) ==
    LET q == Len(rows) \div k
    IN [j \in 1..k |-> SubSeq(rows, (j - 1) * q + 1, j * q)]

\* np.array_split(rows, k): the first Len(rows) % k sections get one row more
array_split(rows, k) ==
    LET n == Len(rows)
        q == n \div k
        r == n % k
    IN [j \in 1..k |->
          LET first == (j - 1) * q + Min(j - 1, r)
              size == IF j <= r THEN q + 1 ELSE q
          IN SubSeq(rows, first + 1, first + size)]

\* split_dataframes(large_df, size); split_num = 0 makes np.array_split raise
split_num(frame, size) == CeilDiv(memory_usage(frame), size)

split_dataframes(frame, size) ==
    LET parts == array_split(frame.rows, split_num(frame, size))
    IN [j \in DOMAIN parts |->
          [typed |-> frame.typed, columns |-> frame.columns, rows |-> parts[j]]]

\* 0.95 * MAX_BSON_SIZE / e.args[1], e.args[1] = binary_size / mem_usage
new_max_size(binary_size, mem_usage) ==
    Rational(19 * CeilingMiB * mem_usage, 20 * binary_size)

\* Variant: the assertion is absent
ShrinkAssertion_Off(new) == TRUE

\* assert new_max_size > MAX_BSON_SIZE * 0.8
ShrinkAssertion(new) == 5 * new[1] > 4 * CeilingMiB * new[2]

\* Variant: the documents built before the retry are kept in front
ReturnOfRetry_Extending(outer_docs, inner_value) == outer_docs \o inner_value

\* return make_bson_docs(uid, df, metadata, max_size=new_max_size)
ReturnOfRetry(outer_docs, inner_value) == inner_value

\* docs = []
FreshDocs(previous) == <<>>

DefaultMaxSize == <<4 * CeilingMiB, 1>>
InitialMaxSizes == {DefaultMaxSize, <<ItemSize, 1>>}

-----------------------------------------------------------------------------
\* DocumentReader and TableAssembler

NoFrame == [typed |-> TRUE, columns |-> <<>>, rows |-> <<>>]

\* _build_dataframe(doc): the sha1 fields are not read
_build_dataframe(doc) ==
    LET blobs == <<doc.index.data>> \o
                 [c \in 1..Len(doc.columns) |-> doc.columns[c].col.data]
    IN IF \E b \in 1..Len(blobs) : ~blobs[b].ok
       THEN [kind |-> "raise", exc |-> "lz4: decompression failed", frame |-> NoFrame]
       ELSE
       LET index == _deserialize_array(doc.index.data)
           columns == [c \in 1..Len(doc.columns) |->
                          _deserialize_array(doc.columns[c].col.data)]
           names == [c \in 1..Len(doc.columns) |-> doc.columns[c].name]
       IN IF \E c \in 1..Len(columns) : Len(columns[c]) # Len(index)
          THEN [kind |-> "raise", exc |-> "ValueError: length mismatch",
                frame |-> NoFrame]
          ELSE [kind |-> "frame", exc |-> "none",
                frame |-> [typed |-> TRUE,
                           columns |-> names,
                           rows |-> [k \in 1..Len(index) |->
                                       [t |-> index[k],
                                        vals |-> [c \in 1..Len(columns) |->
                                                     columns[c][k]]]]]]

\* Column labels of pd.concat: the union, in order of first appearance
RECURSIVE UnionColumns(_)
UnionColumns(frames) ==
    IF frames = <<>> THEN <<>>
    ELSE LET before == UnionColumns(SubSeq(frames, 1, Len(frames) - 1))
             last == frames[Len(frames)].columns
         IN before \o SelectSeq(last, LAMBDA n : n \notin Range(before))

PositionOf(name, names) == CHOOSE c \in 1..Len(names) : names[c] = name

\* The rows of one frame laid out on the labels of the concatenation
Reindexed(frame, labels) ==
    [k \in 1..Len(frame.rows) |->
        [t |-> frame.rows[k].t,
         vals |-> [c \in 1..Len(labels) |->
                     IF labels[c] \in Range(frame.columns)
                     THEN frame.rows[k].vals[PositionOf(labels[c], frame.columns)]
                     ELSE NaN]]]

RECURSIVE StackRows(_, _)
StackRows(frames, labels) ==
    IF frames = <<>> THEN <<>>
    ELSE Reindexed(Head(frames), labels) \o StackRows(Tail(frames), labels)

\* pd.concat(frames)
concat(frames) ==
    LET labels == UnionColumns(frames)
    IN [typed |-> TRUE, columns |-> labels, rows |-> StackRows(frames, labels)]

\* Variant: the concatenation is returned as it is
sort_concatenated_Unsorted(rows) == {rows}

\* df.sort_index() of build_dataframe
sort_concatenated(rows) == sort_index(rows)

\* build_dataframe(documents), sorted being the outcome of its sort_index
build_dataframe(documents, sorted) ==
    LET built == [d \in 1..Len(documents) |-> _build_dataframe(documents[d])]
    IN IF \E d \in 1..Len(built) : built[d].kind = "raise"
       THEN built[CHOOSE d \in 1..Len(built) :
                     /\ built[d].kind = "raise"
                     /\ \A e \in 1..(d - 1) : built[e].kind = "frame"]
       ELSE [kind |-> "frame", exc |-> "none",
             frame |-> [concat([d \in 1..Len(built) |-> built[d].frame])
                           EXCEPT !.rows = sorted]]

ConcatRows(documents) ==
    concat([d \in 1..Len(documents) |-> _build_dataframe(documents[d]).frame]).rows

\* A document of another series, with another column
ForeignTable ==
    [typed |-> TRUE, columns |-> <<NameB>>,
     rows |-> <<[t |-> 1, vals |-> <<7>>]>>]
ForeignDoc == _make_bson_doc("other", ForeignTable, Metadata, ForeignTable.rows).doc

\* What a stored blob can become when its bytes are altered: a stream that
\* no longer decompresses, or one that decodes to other content
AlteredBlobs(data) ==
    {[ok |-> FALSE, npy |-> data.npy],
     [ok |-> TRUE, npy |-> [data.npy EXCEPT ![1] = data.npy[1] + 1]]}

-----------------------------------------------------------------------------
\* Inputs

RowsOf(ncols) == [t : Times, vals : [1..ncols -> Values]]

SeqsUpTo(S, n) == UNION {[1..m -> S] : m \in 0..n}

\* Single-column tables have up to MaxRows rows, wider ones two rows fewer
Tables ==
    {[typed |-> ty, columns |-> cl, rows |-> rw] :
        ty \in BOOLEAN,
        cl \in {c \in ColumnLists : Len(c) = 1},
        rw \in SeqsUpTo(RowsOf(1), MaxRows)}
    \cup
    {[typed |-> ty, columns |-> cl, rows |-> rw] :
        ty \in BOOLEAN,
        cl \in {c \in ColumnLists : Len(c) = 2},
        rw \in SeqsUpTo(RowsOf(2), MaxRows - 2)}

NoOutcome == [kind |-> "none"]

Init ==
    /\ df \in Tables
    /\ max_size \in InitialMaxSizes
    /\ stack = <<>>
    /\ subs = <<>>
    /\ i = 1
    /\ docs = <<>>
    /\ pc = "call"
    /\ ret = <<>>
    /\ exc = "none"
    /\ calls = 0
    /\ store = <<>>
    /\ given = <<>>
    /\ out = NoOutcome

readVars == <<store, given, out>>

-----------------------------------------------------------------------------
\* make_bson_docs

\* Entry of make_bson_docs: docs = [] and the evaluation of split_dataframes
Call ==
    /\ pc = "call"
    /\ split_num(df, max_size) > 0
    /\ subs' = split_dataframes(df, max_size)
    /\ docs' = FreshDocs(docs)
    /\ i' = 1
    /\ pc' = "loop"
    /\ calls' = calls + 1
    /\ UNCHANGED <<df, stack, max_size, ret, exc, readVars>>

\* np.array_split(large_df, 0) raises ValueError
CallSplitFails ==
    /\ pc = "call"
    /\ split_num(df, max_size) = 0
    /\ pc' = "raised"
    /\ exc' = "ValueError: number sections must be larger than 0"
    /\ calls' = calls + 1
    /\ UNCHANGED <<df, stack, max_size, subs, i, docs, ret, readVars>>

\* One iteration of the loop whose _make_bson_doc returns a document
BuildDoc ==
    /\ pc = "loop"
    /\ i <= Len(subs)
    /\ \E sorted \in sort_index(subs[i].rows) :
          LET r == _make_bson_doc(Uid, subs[i], Metadata, sorted)
          IN /\ r.kind = "doc"
             /\ docs' = Append(docs, r.doc)
    /\ i' = i + 1
    /\ UNCHANGED <<df, stack, max_size, subs, pc, ret, exc, calls, readVars>>

\* The sub-table raised InvalidBSON, the assertion holds: recursive call
Retry ==
    /\ pc = "loop"
    /\ i <= Len(subs)
    /\ Len(stack) < RecursionLimit
    /\ \E sorted \in sort_index(subs[i].rows) :
          LET r == _make_bson_doc(Uid, subs[i], Metadata, sorted)
              new == new_max_size(r.binary_size, r.mem_usage)
          IN /\ r.kind = "raise"
             /\ r.exc = "InvalidBSON"
             /\ ShrinkAssertion(new)
             /\ max_size' = new
    /\ stack' = Append(stack, [max_size |-> max_size, docs |-> docs])
    /\ pc' = "call"
    /\ UNCHANGED <<df, subs, i, docs, ret, exc, calls, readVars>>

\* As Retry, but the interpreter's recursion limit is reached
RetryTooDeep ==
    /\ pc = "loop"
    /\ i <= Len(subs)
    /\ Len(stack) >= RecursionLimit
    /\ \E sorted \in sort_index(subs[i].rows) :
          LET r == _make_bson_doc(Uid, subs[i], Metadata, sorted)
          IN /\ r.kind = "raise"
             /\ r.exc = "InvalidBSON"
             /\ ShrinkAssertion(new_max_size(r.binary_size, r.mem_usage))
    /\ pc' = "raised"
    /\ exc' = "RecursionError"
    /\ UNCHANGED <<df, stack, max_size, subs, i, docs, ret, calls, readVars>>

\* The sub-table raised InvalidBSON and the assertion fails
AssertFails ==
    /\ pc = "loop"
    /\ i <= Len(subs)
    /\ \E sorted \in sort_index(subs[i].rows) :
          LET r == _make_bson_doc(Uid, subs[i], Metadata, sorted)
          IN /\ r.kind = "raise"
             /\ r.exc = "InvalidBSON"
             /\ ~ShrinkAssertion(new_max_size(r.binary_size, r.mem_usage))
    /\ pc' = "raised"
    /\ exc' = "AssertionError"
    /\ UNCHANGED <<df, stack, max_size, subs, i, docs, ret, calls, readVars>>

\* _make_bson_doc raised something the except clause does not catch
Propagate ==
    /\ pc = "loop"
    /\ i <= Len(subs)
    /\ \E sorted \in sort_index(subs[i].rows) :
          LET r == _make_bson_doc(Uid, subs[i], Metadata, sorted)
          IN /\ r.kind = "raise"
             /\ r.exc # "InvalidBSON"
             /\ exc' = r.exc
    /\ pc' = "raised"
    /\ UNCHANGED <<df, stack, max_size, subs, i, docs, ret, calls, readVars>>

\* return docs, in the innermost frame
ReturnDocs ==
    /\ pc = "loop"
    /\ i > Len(subs)
    /\ ret' = docs
    /\ pc' = IF stack = <<>> THEN "done" ELSE "unwind"
    /\ store' = IF stack = <<>> THEN docs ELSE store
    /\ UNCHANGED <<df, stack, max_size, subs, i, docs, exc, calls, given, out>>

\* A suspended frame returns what its recursive call returned
Unwind ==
    /\ pc = "unwind"
    /\ stack # <<>>
    /\ LET frame == stack[Len(stack)]
           value == ReturnOfRetry(frame.docs, ret)
       IN /\ ret' = value
          /\ store' = IF Len(stack) = 1 THEN value ELSE store
    /\ stack' = SubSeq(stack, 1, Len(stack) - 1)
    /\ pc' = IF Len(stack) = 1 THEN "done" ELSE "unwind"
    /\ UNCHANGED <<df, max_size, subs, i, docs, exc, calls, given, out>>

writeVars == <<df, stack, max_size, subs, i, docs, ret, exc, calls>>

\* The data of one ColumnRecord of one stored document is altered
Tamper ==
    /\ pc = "done"
    /\ store = ret
    /\ \E d \in 1..Len(store) : \E c \in 0..Len(store[d].columns) :
          \E blob \in AlteredBlobs(IF c = 0 THEN store[d].index.data
                                            ELSE store[d].columns[c].col.data) :
             store' = IF c = 0
                      THEN [store EXCEPT ![d].index.data = blob]
                      ELSE [store EXCEPT ![d].columns[c].col.data = blob]
    /\ UNCHANGED <<writeVars, pc, given, out>>

\* _build_dataframe on one stored document
Read ==
    /\ pc = "done"
    /\ \E d \in 1..Len(store) :
          /\ given' = <<store[d]>>
          /\ out' = _build_dataframe(store[d])
    /\ pc' = "read"
    /\ UNCHANGED <<writeVars, store>>

\* build_dataframe on the documents as they were returned, supplied in any
\* order, alone or together with a document of another series
Assemble ==
    /\ pc = "done"
    /\ store = ret
    /\ \E order \in Orderings(store), extra \in {<<>>, <<ForeignDoc>>} :
          /\ given' = store \o extra
          /\ \E sorted \in sort_concatenated(ConcatRows(order \o extra)) :
                out' = build_dataframe(order \o extra, sorted)
    /\ pc' = "assembled"
    /\ UNCHANGED <<writeVars, store>>

Next ==
    \/ Call
    \/ CallSplitFails
    \/ BuildDoc
    \/ Retry
    \/ RetryTooDeep
    \/ AssertFails
    \/ Propagate
    \/ ReturnDocs
    \/ Unwind
    \/ Tamper
    \/ Read
    \/ Assemble

Spec == Init /\ [][Next]_vars

-----------------------------------------------------------------------------
\* Measures used by the properties, taken on the data itself

RowWeight(row) == row.t + SumSeq(row.vals)

RECURSIVE Weight(_)
Weight(rows) == IF rows = <<>> THEN 0 ELSE RowWeight(Head(rows)) + Weight(Tail(rows))

RECURSIVE Flatten(_)
Flatten(parts) == IF parts = <<>> THEN <<>> ELSE Head(parts).rows \o Flatten(Tail(parts))

Count(seq, x) == Cardinality({k \in 1..Len(seq) : seq[k] = x})

SameRows(a, b) ==
    /\ Len(a) = Len(b)
    /\ \A x \in Range(a) \cup Range(b) : Count(a, x) = Count(b, x)

\* 0.95 * MAX_BSON_SIZE bytes, against a size in MiB
WithinLimit(size) == 20 * size * MiB <= 19 * MAX_BSON_SIZE

SizeSum(doc) ==
    doc.index.size + SumSeq([c \in 1..Len(doc.columns) |-> doc.columns[c].col.size])

\* The rows a document holds
DocRows(doc) ==
    [k \in 1..Len(doc.index.data.npy) |->
        [t |-> doc.index.data.npy[k],
         vals |-> [c \in 1..Len(doc.columns) |-> doc.columns[c].col.data.npy[k]]]]

BuiltFrom(doc, sub) == SameRows(DocRows(doc), sub.rows) /\ IsAscending(DocRows(doc))

AllDocs == Range(docs) \cup Range(ret) \cup UNION {Range(stack[k].docs) : k \in 1..Len(stack)}

\* Every row is smaller compressed than in memory: every sub-table has ratio < 1
Compressible(frame) ==
    \A k \in 1..Len(frame.rows) :
        RowWeight(frame.rows[k]) < (Len(frame.columns) + 1) * ItemSize

Altered(doc) ==
    \/ Sha1(doc.index.data) # doc.index.sha1
    \/ \E c \in 1..Len(doc.columns) : Sha1(doc.columns[c].col.data) # doc.columns[c].col.sha1

ColumnNames(doc) == {doc.columns[c].name : c \in 1..Len(doc.columns)}

-----------------------------------------------------------------------------
\* C1 -- Size bound: every document built (in the running attempt, in a
\* suspended attempt, or returned) records as binary_size the sum of the size
\* fields of its index and columns, and that sum is at most 0.95 * 2^24 bytes;
\* no sub-table whose encoded size exceeds the bound has a document.
C1_SizeBound ==
    /\ \A d \in AllDocs :
          /\ d.metadata["binary_size"] = SizeSum(d)
          /\ WithinLimit(d.metadata["binary_size"])
          /\ WithinLimit(Weight(DocRows(d)))
    /\ pc = "loop" => \A j \in 1..Len(docs) : WithinLimit(Weight(subs[j].rows))

C1_Witness ==
    /\ pc = "done"
    /\ calls >= 2
    /\ Len(ret) >= 2
    /\ \E d \in Range(ret) : d.metadata["binary_size"] > CeilingMiB \div 2

\* C2 -- Round-trip: build_dataframe of the returned documents, in any
\* order, has exactly the rows of the input table (each as often as in the
\* input, values unchanged), ascending by index.
C2_RoundTrip ==
    (pc = "assembled" /\ given = ret) =>
        /\ out.kind = "frame"
        /\ SameRows(out.frame.rows, df.rows)
        /\ IsAscending(out.frame.rows)
        /\ Len(out.frame.columns) = Len(df.columns)

C2_Witness ==
    /\ pc = "assembled"
    /\ given = ret
    /\ Len(ret) >= 2
    /\ ~IsAscending(df.rows)
    /\ out.kind = "frame"
    /\ Len(out.frame.rows) = MaxRows

\* C3 -- Convergence: for a table whose sub-tables all compress at ratio < 1,
\* every retry runs with a max_size strictly below that of the attempt that
\* raised, and the recursion ends with every sub-table built (it never
\* runs into the recursion limit).
C3_Convergence ==
    (df.typed /\ Compressible(df)) =>
        /\ (stack # <<>> /\ pc \in {"call", "loop"}) =>
               Less(max_size, stack[Len(stack)].max_size)
        /\ exc # "RecursionError"

\* C4 -- Checksum integrity: reading a document one of whose data blobs no
\* longer matches its stored sha1 fails with ChecksumMismatch.
C4_ChecksumIntegrity ==
    (pc = "read" /\ Altered(given[1])) =>
        (out.kind = "raise" /\ out.exc = "ChecksumMismatch")

\* C5 -- Empty table: make_bson_docs on a table with no rows and a
\* DatetimeIndex returns exactly one document, whose nrows is 0.
C5_EmptyTable ==
    (df.typed /\ df.rows = <<>> /\ pc \in {"done", "raised"}) =>
        /\ pc = "done"
        /\ Len(ret) = 1
        /\ ret[1].metadata["nrows"] = 0

\* C6 -- SchemaMismatch: build_dataframe on documents of which two have
\* different column-name sets fails with SchemaMismatch and returns no table.
C6_SchemaMismatch ==
    (pc = "assembled" /\ \E a, b \in Range(given) : ColumnNames(a) # ColumnNames(b)) =>
        (out.kind = "raise" /\ out.exc = "SchemaMismatch")

\* C7 -- InvalidIndex: on a table whose index is not a DatetimeIndex,
\* make_bson_docs ends with the index error of _make_bson_doc, raised on the
\* first sub-table, without any retry and without returning documents.
C7_InvalidIndex ==
    ~df.typed =>
        /\ pc \notin {"done", "unwind", "read", "assembled"}
        /\ stack = <<>>
        /\ docs = <<>> /\ ret = <<>>
        /\ pc = "loop" => i = 1
        /\ pc = "raised" => (exc = "ValueError: index is not DatetimeIndex" /\ calls = 1)

\* C8 -- Partitioning: one attempt on a table of footprint F > 0 with target
\* S cuts it into exactly ceil(F / S) sub-tables whose row counts differ by at
\* most one and whose concatenation, in partition order, is the input table.
C8_Partitioning ==
    (pc = "loop" /\ memory_usage(df) > 0) =>
        LET k == Len(subs)
            F == memory_usage(df)
        IN /\ k * max_size[1] >= F * max_size[2]
           /\ (k - 1) * max_size[1] < F * max_size[2]
           /\ Flatten(subs) = df.rows
           /\ \A a, b \in 1..k : Len(subs[a].rows) - Len(subs[b].rows) <= 1
           /\ \A a \in 1..k : subs[a].columns = df.columns /\ subs[a].typed = df.typed

C8_Witness ==
    /\ pc = "loop"
    /\ Len(subs) >= 2
    /\ Len(df.rows) > Len(subs)
    /\ Len(df.rows) % Len(subs) # 0

\* C9 -- Full restart: every attempt partitions the entire input table and
\* starts with no documents; a retry runs with max_size = 0.95 * 2^24 / ratio
\* of the sub-table that raised; the list returned holds exactly one document
\* per sub-table of the last attempt, in partition order, and nothing else.
C9_FullRestart ==
    /\ pc = "loop" =>
          /\ Flatten(subs) = df.rows
          /\ Len(docs) = i - 1
          /\ \A j \in 1..Len(docs) : BuiltFrom(docs[j], subs[j])
    /\ (stack # <<>> /\ pc \in {"call", "loop"}) =>
          LET top == stack[Len(stack)]
              failed == split_dataframes(df, top.max_size)[Len(top.docs) + 1]
          IN /\ ~WithinLimit(Weight(failed.rows))
             /\ max_size[1] * 20 * Weight(failed.rows)
                  = max_size[2] * 19 * CeilingMiB * memory_usage(failed)
    /\ pc \in {"unwind", "done"} =>
          /\ Len(ret) = Len(subs)
          /\ \A j \in 1..Len(ret) : BuiltFrom(ret[j], subs[j])

C9_Witness ==
    /\ pc = "unwind"
    /\ \E k \in 1..Len(stack) : stack[k].docs # <<>>
    /\ Len(ret) >= 3
    /\ \E j \in 1..Len(ret) : Len(DocRows(ret[j])) >= 2

\* C10 -- Shrink guard: when a sub-table raises InvalidBSON and the
\* recomputed max_size is not above 0.8 * 2^24, make_bson_docs ends with an
\* AssertionError, without a further call and without returning documents;
\* every recursive call runs with max_size > 0.8 * 2^24, and InvalidBSON
\* never reaches the caller.
C10_ShrinkGuard ==
    /\ [](/\ stack # <<>> => 5 * max_size[1] > 4 * CeilingMiB * max_size[2]
          /\ exc # "InvalidBSON"
          /\ exc = "AssertionError" => (pc = "raised" /\ ret = <<>>))
    /\ [][(/\ pc = "loop"
           /\ i <= Len(subs)
           /\ subs[i].typed
           /\ ~WithinLimit(Weight(subs[i].rows))
           /\ 19 * memory_usage(subs[i]) <= 16 * Weight(subs[i].rows))
          => (pc' = "raised" /\ exc' = "AssertionError" /\ stack' = stack /\ ret' = <<>>)]_vars

C10_Witness ==
    /\ pc = "raised"
    /\ exc = "AssertionError"
    /\ calls >= 2

====
